---- MODULE Spec2Model ----
(***************************************************************************)
(* LuckyPay: the storage schema, row-level security policies and triggers  *)
(* of src/pages/Index.tsx (SQL migrations) and the dashboard handlers of   *)
(* src/pages/Dashboard.tsx.                                                *)
(*                                                                         *)
(* Decimals.  A value submitted by a caller is <<whole, mills>>: the value *)
(* whole + mills/1000 with 0 <= mills <= 999.  A value stored in a         *)
(* DECIMAL(15,2) column is <<whole, cents>>: whole + cents/100 with        *)
(* 0 <= cents <= 99.  SQL NULL of a decimal is <<>>, of a text column the  *)
(* string "NULL", of an identity reference the number 0.                   *)
(***************************************************************************)
EXTENDS Integers, Sequences, FiniteSets, TLC

VARIABLES users, profiles, transactions, audit_logs, nextTxId, now, lastOp,
          balanceChanges, user, profile, dashTransactions, loading, insertInFlight,
          fetches, refreshInFlight, toasts, accepted

vars == <<users, profiles, transactions, audit_logs, nextTxId, now, lastOp,
          balanceChanges, user, profile, dashTransactions, loading, insertInFlight,
          fetches, refreshInFlight, toasts, accepted>>

dbVars == <<users, profiles, transactions, audit_logs, nextTxId>>
dashVars == <<user, profile, dashTransactions, loading, insertInFlight,
              fetches, refreshInFlight, toasts, accepted>>

----------------------------------------------------------------------------
(* Bounds of the model *)
MaxClock == 1
MaxTx == 2
MaxAudit == 2
MaxToasts == 2
MaxFetchRows == 11
MaxOtherRows == 1

(* Program constants *)
MaxAmount == 100000000
VerificationFee == 6000
DefaultBalance == 100000
FetchLimit == 10

\* the identities: a caller U and another identity V
Ids == {1, 2}
NoUser == 0
NullStr == "NULL"
NullDec == <<>>

----------------------------------------------------------------------------
(* DECIMAL(15,2) *)

\* assignment of a submitted value to a DECIMAL(15,2) column: round to two
\* places, ties away from zero
Round2(a) ==
  IF a = NullDec THEN NullDec
  ELSE LET c  == a[2] \div 10
           r  == a[2] % 10
           up == IF a[1] < 0 THEN r > 5 ELSE r >= 5
           c2 == IF up THEN c + 1 ELSE c
       IN  IF c2 = 100 THEN <<a[1] + 1, 0>> ELSE <<a[1], c2>>

\* d <= 0
LeqZero(d) == d[1] < 0 \/ (d[1] = 0 /\ d[2] = 0)

\* d > n, n an integer
GtInt(d, n) == d[1] > n \/ (d[1] = n /\ d[2] > 0)

\* OLD.x IS DISTINCT FROM NEW.x
IsDistinctFrom(x, y) == x # y

----------------------------------------------------------------------------
(* Inputs *)
AmountInputs ==
  {<<-1, 0>>, <<0, 0>>, <<0, 4>>, <<0, 5>>, <<VerificationFee, 0>>,
   <<MaxAmount, 0>>, <<MaxAmount, 4>>, <<MaxAmount, 5>>, <<MaxAmount + 1, 0>>,
   NullDec}
BalanceInputs == {<<0, 0>>, <<DefaultBalance, 4>>, NullDec}
IdentityInputs == {<<NullStr, NullStr>>, <<"08010000000", "Ada">>}
TypeInputs == {"transfer", "bogus"}
StatusInputs == {"completed", "bogus"}
TxTypes == {"deposit", "withdrawal", "transfer", "verification_payment"}
TxStatuses == {"pending", "completed", "failed"}

NoOp == [op |-> "none", caller |-> NoUser, target |-> 0, amount |-> NullDec,
         err |-> "none", rows |-> {}]

Op(o, c, t, a, e, r) ==
  [op |-> o, caller |-> c, target |-> t, amount |-> a, err |-> e, rows |-> r]

----------------------------------------------------------------------------
(* public.transactions *)

\* validate_transaction_amount() with amount < 0 for amount <= 0
validate_transaction_amount_ZeroAccepted(new) ==
  IF new.amount = NullDec THEN "none"
  ELSE IF new.amount[1] < 0 THEN "amount_must_be_positive"
  ELSE IF GtInt(new.amount, MaxAmount) THEN "amount_exceeds_maximum"
  ELSE "none"

\* validate_transaction_amount() with amount >= 100000000 for amount > 100000000
validate_transaction_amount_LimitExcluded(new) ==
  IF new.amount = NullDec THEN "none"
  ELSE IF LeqZero(new.amount) THEN "amount_must_be_positive"
  ELSE IF new.amount[1] >= MaxAmount THEN "amount_exceeds_maximum"
  ELSE "none"

\* validate_transaction_amount(): the error raised for NEW, or "none"
validate_transaction_amount(new) ==
  IF new.amount = NullDec THEN "none"
  ELSE IF LeqZero(new.amount) THEN "amount_must_be_positive"
  ELSE IF GtInt(new.amount, MaxAmount) THEN "amount_exceeds_maximum"
  ELSE "none"

\* column constraints of public.transactions: NOT NULL and CHECK
TransactionConstraints(new) ==
  IF new.amount = NullDec \/ new.type = NullStr THEN "not_null"
  ELSE IF new.type \notin TxTypes THEN "check_type"
  ELSE IF new.status # NullStr /\ new.status \notin TxStatuses THEN "check_status"
  ELSE IF new.user_id # NoUser /\ new.user_id \notin users THEN "foreign_key"
  ELSE "none"

\* auth.uid() = user_id  (NULL on either side is not true)
TxPolicy(uid, row) == uid # NoUser /\ row.user_id # NoUser /\ uid = row.user_id

\* the row an INSERT builds: submitted columns, defaults for the others
NewTransaction(owner, type, amountIn, status, acct, name, bank, descr) ==
  [id |-> nextTxId, user_id |-> owner, type |-> type,
   amount |-> Round2(amountIn),
   recipient_account |-> acct, recipient_name |-> name,
   recipient_bank |-> bank, status |-> status, reference |-> nextTxId,
   description |-> descr, created_at |-> now]

\* outcome of INSERT INTO transactions by caller uid: BEFORE trigger, then
\* the WITH CHECK policy, then the constraints
InsertOutcome(uid, new) ==
  LET v == validate_transaction_amount(new)
  IN  IF v # "none" THEN v
      ELSE IF ~TxPolicy(uid, new) THEN "rls"
      ELSE TransactionConstraints(new)

InsertTransaction(uid, owner, type, amountIn, status) ==
  LET new == NewTransaction(owner, type, amountIn, status,
                            NullStr, NullStr, NullStr, NullStr)
      e   == InsertOutcome(uid, new)
  IN  /\ uid \in users
      /\ IF e = "none"
           THEN /\ transactions' = transactions \cup {new}
                /\ nextTxId' = nextTxId + 1
           ELSE UNCHANGED <<transactions, nextTxId>>
      /\ lastOp' = Op("insert_tx", uid, IF e = "none" THEN new.id ELSE 0,
                      amountIn, e, {})
      /\ UNCHANGED <<users, profiles, audit_logs, now, balanceChanges>>
      /\ UNCHANGED dashVars

\* UPDATE transactions SET amount = .. WHERE id = ..
\* UPDATE transactions SET user_id = .. WHERE id = ..
\* UPDATE transactions SET status = .. WHERE id = ..
UpdatedTransaction(old, col, amountIn, owner, status) ==
  IF col = "amount" THEN [old EXCEPT !.amount = Round2(amountIn)]
  ELSE IF col = "user_id" THEN [old EXCEPT !.user_id = owner]
  ELSE [old EXCEPT !.status = status]

\* UpdateOutcome without the policy check of the new row
UpdateOutcome_NewRowUnchecked(uid, old, new) ==
  IF ~TxPolicy(uid, old) THEN "no_rows"
  ELSE LET v == validate_transaction_amount(new)
       IN  IF v # "none" THEN v ELSE TransactionConstraints(new)

\* the USING policy selects the rows, the BEFORE trigger validates NEW, the
\* USING policy is applied to NEW as well (no WITH CHECK given), then the
\* constraints
UpdateOutcome(uid, old, new) ==
  IF ~TxPolicy(uid, old) THEN "no_rows"
  ELSE LET v == validate_transaction_amount(new)
       IN  IF v # "none" THEN v
           ELSE IF ~TxPolicy(uid, new) THEN "rls"
           ELSE TransactionConstraints(new)

UpdateTransaction(uid, old, col, amountIn, owner, status) ==
  LET new == UpdatedTransaction(old, col, amountIn, owner, status)
      e   == UpdateOutcome(uid, old, new)
  IN  /\ uid \in users
      /\ old \in transactions
      /\ IF e = "none"
           THEN transactions' = (transactions \ {old}) \cup {new}
           ELSE UNCHANGED transactions
      /\ lastOp' = Op(IF col = "amount" THEN "update_tx_amount"
                      ELSE IF col = "user_id" THEN "update_tx_owner"
                      ELSE "update_tx_status",
                      uid, old.id, IF col = "amount" THEN amountIn ELSE NullDec,
                      e, {})
      /\ UNCHANGED <<users, profiles, audit_logs, nextTxId, now, balanceChanges>>
      /\ UNCHANGED dashVars

\* DELETE FROM transactions WHERE id = ..
DeleteTransaction(uid, old) ==
  LET e == IF TxPolicy(uid, old) THEN "none" ELSE "no_rows"
  IN  /\ uid \in users
      /\ old \in transactions
      /\ IF e = "none"
           THEN transactions' = transactions \ {old}
           ELSE UNCHANGED transactions
      /\ lastOp' = Op("delete_tx", uid, old.id, NullDec, e, {})
      /\ UNCHANGED <<users, profiles, audit_logs, nextTxId, now, balanceChanges>>
      /\ UNCHANGED dashVars

\* rows a SELECT by caller uid sees
VisibleTransactions(uid) == {r \in transactions : TxPolicy(uid, r)}

\* Precedes for ORDER BY created_at ASC
Precedes_Ascending(r, q, tb) ==
  \/ r.created_at < q.created_at
  \/ /\ r.created_at = q.created_at
     /\ IF tb THEN r.id <= q.id ELSE r.id >= q.id

\* ORDER BY created_at DESC; the order of rows with equal created_at is
\* not determined by the query (tb picks one of the two scan orders)
Precedes(r, q, tb) ==
  \/ r.created_at > q.created_at
  \/ /\ r.created_at = q.created_at
     /\ IF tb THEN r.id <= q.id ELSE r.id >= q.id

RECURSIVE OrderByCreatedAtDesc(_, _)
OrderByCreatedAtDesc(S, tb) ==
  IF S = {} THEN <<>>
  ELSE LET first == CHOOSE r \in S : \A q \in S : Precedes(r, q, tb)
       IN  <<first>> \o OrderByCreatedAtDesc(S \ {first}, tb)

Limit(s, n) == IF Len(s) <= n THEN s ELSE SubSeq(s, 1, n)

\* select('*').eq('user_id', owner).order('created_at', desc).limit(10)
\* issued by caller uid
SelectRecent(uid, owner, tb) ==
  Limit(OrderByCreatedAtDesc({r \in VisibleTransactions(uid) :
                                 r.user_id = owner}, tb), FetchLimit)

\* SELECT * FROM transactions WHERE user_id = owner, issued by caller uid
SelectTransactions(uid, owner) ==
  /\ uid \in users
  /\ lastOp' = Op("select_tx", uid, owner, NullDec, "none",
                  {r.id : r \in {q \in VisibleTransactions(uid) :
                                    q.user_id = owner}})
  /\ UNCHANGED dbVars
  /\ UNCHANGED <<now, balanceChanges>>
  /\ UNCHANGED dashVars

----------------------------------------------------------------------------
(* auth.users and public.profiles *)

\* COALESCE(NEW.raw_user_meta_data->>'full_name', '')
Coalesce(x, dflt) == IF x = NullStr THEN dflt ELSE x

\* a row of public.profiles built by an INSERT of (id, phone_number,
\* full_name): the columns not named take their defaults
NewProfile(id, phone, full_name) ==
  [id |-> id, phone_number |-> phone, full_name |-> full_name,
   balance |-> <<DefaultBalance, 0>>, is_verified |-> FALSE,
   has_paid_verification |-> FALSE, created_at |-> now, updated_at |-> now]

\* handle_new_user(): the profile row inserted for the new identity
handle_new_user(id, phone, full_name) ==
  NewProfile(id, phone, Coalesce(full_name, ""))

\* ProfileConstraints without the primary key
ProfileConstraints_NoPrimaryKey(tbl, new) ==
  IF new.phone_number # NullStr
     /\ \E r \in tbl : r.phone_number = new.phone_number
    THEN "unique_violation"
    ELSE "none"

\* PRIMARY KEY (id) and UNIQUE (phone_number) of public.profiles; NULL phone
\* numbers never collide
ProfileConstraints(tbl, new) ==
  IF \E r \in tbl : r.id = new.id THEN "unique_violation"
  ELSE IF new.phone_number # NullStr
          /\ \E r \in tbl : r.phone_number = new.phone_number
       THEN "unique_violation"
  ELSE "none"

\* the profile rows of identity id
ProfilesOf(id) == {r \in profiles : r.id = id}

\* INSERT INTO auth.users, which fires on_auth_user_created in the same
\* transaction: a failure of the trigger's insert fails the whole statement
CreateIdentity(id, phone, full_name) ==
  LET new == handle_new_user(id, phone, full_name)
      e   == ProfileConstraints(profiles, new)
  IN  /\ id \notin users
      /\ IF e = "none"
           THEN /\ users' = users \cup {id}
                /\ profiles' = profiles \cup {new}
           ELSE UNCHANGED <<users, profiles>>
      /\ lastOp' = Op("create_identity", NoUser, id, NullDec, e, {})
      /\ UNCHANGED <<transactions, audit_logs, nextTxId, now, balanceChanges>>
      /\ UNCHANGED dashVars

\* DELETE FROM auth.users: REFERENCES auth.users(id) ON DELETE CASCADE on
\* profiles, transactions and audit_logs
DeleteIdentity(id) ==
  /\ id \in users
  /\ users' = users \ {id}
  /\ profiles' = {r \in profiles : r.id # id}
  /\ transactions' = {r \in transactions : r.user_id # id}
  /\ audit_logs' = SelectSeq(audit_logs, LAMBDA r : r.user_id # id)
  /\ balanceChanges' = SelectSeq(balanceChanges, LAMBDA c : c[1] # id)
  /\ lastOp' = Op("delete_identity", NoUser, id, NullDec, "none", {})
  /\ UNCHANGED <<nextTxId, now>>
  /\ UNCHANGED dashVars

\* auth.uid() = id
ProfilePolicy(uid, row) == uid # NoUser /\ uid = row.id

\* outcome of INSERT INTO profiles by a client: WITH CHECK policy, then the
\* constraints
InsertProfileOutcome(uid, new) ==
  IF ~ProfilePolicy(uid, new) THEN "rls"
  ELSE IF new.id \notin users THEN "foreign_key"
  ELSE ProfileConstraints(profiles, new)

InsertProfile(uid, id, phone) ==
  LET new == NewProfile(id, phone, NullStr)
      e   == InsertProfileOutcome(uid, new)
  IN  /\ uid \in users
      /\ IF e = "none"
           THEN profiles' = profiles \cup {new}
           ELSE UNCHANGED profiles
      /\ lastOp' = Op("insert_profile", uid, id, NullDec, e, {})
      /\ UNCHANGED <<users, transactions, audit_logs, nextTxId, now,
                     balanceChanges>>
      /\ UNCHANGED dashVars

\* DELETE FROM profiles by a client: there is no DELETE policy, so no row
\* is visible to the statement
DeleteProfile(uid, old) ==
  /\ uid \in users
  /\ old \in profiles
  /\ lastOp' = Op("delete_profile", uid, old.id, NullDec, "no_rows", {})
  /\ UNCHANGED dbVars
  /\ UNCHANGED <<now, balanceChanges>>
  /\ UNCHANGED dashVars

\* update_updated_at_column(), BEFORE UPDATE ON profiles
update_updated_at_column(new) == [new EXCEPT !.updated_at = now]

\* a row of public.audit_logs; by is not a column: it records who issued
\* the insert
AuditRow(owner, action, table_name, oldBal, newBal, by) ==
  [user_id |-> owner, action |-> action, table_name |-> table_name,
   old_values |-> [balance |-> oldBal], new_values |-> [balance |-> newBal],
   created_at |-> now, by |-> by]

\* log_balance_change() without the IS DISTINCT FROM test
log_balance_change_Always(old, new) ==
  <<AuditRow(new.id, "UPDATE", "profiles", old.balance, new.balance, "trigger")>>

\* log_balance_change(), AFTER UPDATE ON profiles: the audit rows to insert.
\* TG_OP is 'UPDATE', TG_TABLE_NAME is 'profiles'.
log_balance_change(old, new) ==
  IF IsDistinctFrom(old.balance, new.balance)
    THEN <<AuditRow(new.id, "UPDATE", "profiles", old.balance, new.balance,
                    "trigger")>>
    ELSE <<>>

\* UPDATE profiles SET <col> = .. WHERE id = ..
UpdatedProfile(old, col, balIn, flag) ==
  IF col = "balance" THEN [old EXCEPT !.balance = Round2(balIn)]
  ELSE IF col = "has_paid_verification"
    THEN [old EXCEPT !.has_paid_verification = flag]
  ELSE [old EXCEPT !.is_verified = flag]

\* UpdateProfileOutcome with the error of the audit insert swallowed
UpdateProfileOutcome_AuditErrorSwallowed(uid, old, new, audit, auditFails) ==
  IF ~ProfilePolicy(uid, old) THEN "no_rows"
  ELSE IF ~ProfilePolicy(uid, new) THEN "rls"
  ELSE "none"

\* outcome of the UPDATE: the USING policy selects the row and is applied to
\* NEW as well; an error raised by the audit insert of the AFTER trigger
\* aborts the statement
UpdateProfileOutcome(uid, old, new, audit, auditFails) ==
  IF ~ProfilePolicy(uid, old) THEN "no_rows"
  ELSE IF ~ProfilePolicy(uid, new) THEN "rls"
  ELSE IF audit # <<>> /\ auditFails THEN "audit_insert_failed"
  ELSE "none"

\* The statement, its BEFORE and AFTER row triggers and the audit insert are
\* one transaction.  balanceChanges records the committed balance changes.
UpdateProfile(uid, old, col, balIn, flag, auditFails) ==
  LET new   == update_updated_at_column(UpdatedProfile(old, col, balIn, flag))
      audit == log_balance_change(old, new)
      e     == UpdateProfileOutcome(uid, old, new, audit, auditFails)
  IN  /\ uid \in users
      /\ old \in profiles
      /\ IF e = "none"
           THEN /\ profiles' = (profiles \ {old}) \cup {new}
                /\ audit_logs' = audit_logs \o (IF auditFails THEN <<>> ELSE audit)
                /\ balanceChanges' =
                     IF old.balance # new.balance
                       THEN Append(balanceChanges,
                                   <<old.id, old.balance, new.balance>>)
                       ELSE balanceChanges
           ELSE UNCHANGED <<profiles, audit_logs, balanceChanges>>
      /\ lastOp' = Op(IF col = "balance" THEN "update_profile_balance"
                      ELSE "update_profile_flag", uid, old.id, NullDec, e, {})
      /\ UNCHANGED <<users, transactions, nextTxId, now>>
      /\ UNCHANGED dashVars

\* UPDATE profiles SET created_at = .. WHERE id = ..
\* UPDATE profiles SET updated_at = .. WHERE id = ..
UpdatedProfileTimestamp(old, col, ts) ==
  IF col = "created_at" THEN [old EXCEPT !.created_at = ts]
  ELSE [old EXCEPT !.updated_at = ts]

\* the same statement as UpdateProfile, for a timestamp column: the update
\* policy names no column, so the owner may write either one
UpdateProfileTimestamp(uid, old, col, ts) ==
  LET new   == update_updated_at_column(UpdatedProfileTimestamp(old, col, ts))
      audit == log_balance_change(old, new)
      e     == UpdateProfileOutcome(uid, old, new, audit, FALSE)
  IN  /\ uid \in users
      /\ old \in profiles
      /\ IF e = "none"
           THEN /\ profiles' = (profiles \ {old}) \cup {new}
                /\ audit_logs' = audit_logs \o audit
           ELSE UNCHANGED <<profiles, audit_logs>>
      /\ lastOp' = Op(IF col = "created_at" THEN "update_profile_created_at"
                      ELSE "update_profile_updated_at", uid, old.id, NullDec,
                      e, {})
      /\ UNCHANGED <<users, transactions, nextTxId, now, balanceChanges>>
      /\ UNCHANGED dashVars

----------------------------------------------------------------------------
(* public.audit_logs *)

\* auth.uid() = user_id, the SELECT policy
AuditSelectPolicy(uid, row) ==
  uid # NoUser /\ row.user_id # NoUser /\ uid = row.user_id

\* WITH CHECK (true), the INSERT policy
AuditInsertPolicy(uid, row) == TRUE

\* INSERT INTO audit_logs by a client
InsertAuditLog(uid, owner, oldBal, newBal) ==
  LET new == AuditRow(owner, "UPDATE", "profiles", oldBal, newBal, "client")
      e   == IF ~AuditInsertPolicy(uid, new) THEN "rls"
             ELSE IF owner # NoUser /\ owner \notin users THEN "foreign_key"
             ELSE "none"
  IN  /\ uid \in users
      /\ IF e = "none"
           THEN audit_logs' = Append(audit_logs, new)
           ELSE UNCHANGED audit_logs
      /\ lastOp' = Op("insert_audit", uid, owner, NullDec, e, {})
      /\ UNCHANGED <<users, profiles, transactions, nextTxId, now,
                     balanceChanges>>
      /\ UNCHANGED dashVars

\* UPDATE or DELETE on audit_logs by a client: no policy for either command
ModifyAuditLog(uid, i, cmd) ==
  /\ uid \in users
  /\ i \in DOMAIN audit_logs
  /\ lastOp' = Op(cmd, uid, i, NullDec, "no_rows", {})
  /\ UNCHANGED dbVars
  /\ UNCHANGED <<now, balanceChanges>>
  /\ UNCHANGED dashVars

\* SELECT * FROM audit_logs WHERE user_id = owner, by a client
SelectAuditLogs(uid, owner) ==
  /\ uid \in users
  /\ lastOp' = Op("select_audit", uid, owner, NullDec, "none",
                  {i \in DOMAIN audit_logs :
                     /\ AuditSelectPolicy(uid, audit_logs[i])
                     /\ audit_logs[i].user_id = owner})
  /\ UNCHANGED dbVars
  /\ UNCHANGED <<now, balanceChanges>>
  /\ UNCHANGED dashVars

----------------------------------------------------------------------------
(* Dashboard *)

\* a fetchTransactions call: sent, then answered by the store (data is the
\* result of the query at that moment), then done when its promise settles
FetchSent == [state |-> "sent", failed |-> FALSE, data |-> <<>>]

\* the fetchTransactions calls that have not settled
fetchInFlight == Cardinality({i \in DOMAIN fetches : fetches[i].state # "done"})

\* useAuth() hands the dashboard the signed-in identity and its cached
\* profile; the effect on [user] then calls fetchTransactions()
SignIn(u) ==
  /\ user = NoUser
  /\ u \in users
  /\ ProfilesOf(u) # {}
  /\ user' = u
  /\ profile' = <<CHOOSE r \in ProfilesOf(u) : TRUE>>
  /\ fetches' = Append(fetches, FetchSent)
  /\ UNCHANGED <<dashTransactions, loading, insertInFlight, refreshInFlight,
                 toasts, accepted>>
  /\ UNCHANGED dbVars
  /\ UNCHANGED <<now, lastOp, balanceChanges>>

\* PayNowEnabled with the button never disabled
PayNowEnabled_NeverDisabled ==
  /\ profile # <<>>
  /\ ~profile[1].has_paid_verification

\* the Pay Now button is rendered while the cached profile has not paid and
\* is enabled while loading is false
PayNowEnabled ==
  /\ profile # <<>>
  /\ ~profile[1].has_paid_verification
  /\ ~loading

\* handleVerificationPayment, up to the await of the insert: the guard,
\* setLoading(true), the insert request leaves
PayClick ==
  /\ PayNowEnabled
  /\ user # NoUser /\ profile # <<>>
  /\ loading' = TRUE
  /\ insertInFlight' = insertInFlight + 1
  /\ UNCHANGED <<user, profile, dashTransactions, fetches, refreshInFlight,
                 toasts, accepted>>
  /\ UNCHANGED dbVars
  /\ UNCHANGED <<now, lastOp, balanceChanges>>

\* VerificationPayment with status 'completed'
VerificationPayment_Completed(uid) ==
  NewTransaction(uid, "verification_payment", <<VerificationFee, 0>>,
                 "completed", "9163110673", "Abdullahi", "Opay",
                 "Account verification payment to enable withdrawals")

\* the row handleVerificationPayment submits
VerificationPayment(uid) ==
  NewTransaction(uid, "verification_payment", <<VerificationFee, 0>>, "pending",
                 "9163110673", "Abdullahi", "Opay",
                 "Account verification payment to enable withdrawals")

\* the transport of one request: the reply arrives, the request never
\* reaches the store, or the store answers and the reply never arrives
Transports == {"ok", "request_lost", "reply_lost"}

\* PayReply that sends the insert again when it failed
PayReply_Retry(net) ==
  LET new    == VerificationPayment(user)
      o      == InsertOutcome(user, new)
      stored == net # "request_lost" /\ o = "none"
      e      == IF net = "ok" THEN o ELSE "network"
  IN  /\ insertInFlight > 0
      /\ IF stored
           THEN /\ transactions' = transactions \cup {new}
                /\ nextTxId' = nextTxId + 1
                /\ accepted' = accepted + 1
           ELSE UNCHANGED <<transactions, nextTxId, accepted>>
      /\ IF e = "none"
           THEN /\ toasts' = Append(toasts, "Verification Payment Required")
                /\ fetches' = Append(fetches, FetchSent)
                /\ refreshInFlight' = TRUE
                /\ loading' = FALSE
                /\ insertInFlight' = insertInFlight - 1
           ELSE /\ toasts' = Append(toasts, "Error")
                /\ UNCHANGED <<fetches, refreshInFlight, loading, insertInFlight>>
      /\ lastOp' = Op("verification_payment", user,
                      IF stored THEN new.id ELSE 0, <<VerificationFee, 0>>,
                      e, {})
      /\ UNCHANGED <<user, profile, dashTransactions>>
      /\ UNCHANGED <<users, profiles, audit_logs, now, balanceChanges>>

\* PayReply with fetchTransactions() and refreshProfile() called on failure too
PayReply_RefetchOnFailure(net) ==
  LET new    == VerificationPayment(user)
      o      == InsertOutcome(user, new)
      stored == net # "request_lost" /\ o = "none"
      e      == IF net = "ok" THEN o ELSE "network"
  IN  /\ insertInFlight > 0
      /\ IF stored
           THEN /\ transactions' = transactions \cup {new}
                /\ nextTxId' = nextTxId + 1
                /\ accepted' = accepted + 1
           ELSE UNCHANGED <<transactions, nextTxId, accepted>>
      /\ toasts' = Append(toasts, IF e = "none"
                                    THEN "Verification Payment Required"
                                    ELSE "Error")
      /\ fetches' = Append(fetches, FetchSent)
      /\ refreshInFlight' = TRUE
      /\ loading' = FALSE
      /\ insertInFlight' = insertInFlight - 1
      /\ lastOp' = Op("verification_payment", user,
                      IF stored THEN new.id ELSE 0, <<VerificationFee, 0>>,
                      e, {})
      /\ UNCHANGED <<user, profile, dashTransactions>>
      /\ UNCHANGED <<users, profiles, audit_logs, now, balanceChanges>>

\* handleVerificationPayment, from the completion of the insert to the end.
\* The store executes the insert unless the request never reached it (stored:
\* the store accepted the row); e is the error the handler sees, "network"
\* when no reply arrived; then the success branch or the catch branch, then
\* finally.  accepted counts the inserts of the dashboard the store accepted.
PayReply(net) ==
  LET new    == VerificationPayment(user)
      o      == InsertOutcome(user, new)
      stored == net # "request_lost" /\ o = "none"
      e      == IF net = "ok" THEN o ELSE "network"
  IN  /\ insertInFlight > 0
      /\ IF stored
           THEN /\ transactions' = transactions \cup {new}
                /\ nextTxId' = nextTxId + 1
                /\ accepted' = accepted + 1
           ELSE UNCHANGED <<transactions, nextTxId, accepted>>
      /\ IF e = "none"
           THEN /\ toasts' = Append(toasts, "Verification Payment Required")
                /\ fetches' = Append(fetches, FetchSent)
                /\ refreshInFlight' = TRUE
           ELSE /\ toasts' = Append(toasts, "Error")
                /\ UNCHANGED <<fetches, refreshInFlight>>
      /\ loading' = FALSE
      /\ insertInFlight' = insertInFlight - 1
      /\ lastOp' = Op("verification_payment", user,
                      IF stored THEN new.id ELSE 0, <<VerificationFee, 0>>,
                      e, {})
      /\ UNCHANGED <<user, profile, dashTransactions>>
      /\ UNCHANGED <<users, profiles, audit_logs, now, balanceChanges>>

\* the store answers the query of fetchTransactions call i
FetchExecute(i, tb) ==
  /\ i \in DOMAIN fetches
  /\ fetches[i].state = "sent"
  /\ fetches' = [fetches EXCEPT ![i] =
                   [state |-> "replied", failed |-> FALSE,
                    data |-> SelectRecent(user, user, tb)]]
  /\ UNCHANGED <<user, profile, dashTransactions, loading, insertInFlight,
                 refreshInFlight, toasts, accepted>>
  /\ UNCHANGED dbVars
  /\ UNCHANGED <<now, lastOp, balanceChanges>>

\* fetchTransactions call i, from the completion of its await:
\* setTransactions on success, console.error on failure.  The promises of
\* different calls settle in any order.
FetchReply(i, failed) ==
  /\ i \in DOMAIN fetches
  /\ fetches[i].state = "replied"
  /\ fetches' = [fetches EXCEPT ![i] =
                   [state |-> "done", failed |-> failed,
                    data |-> IF failed THEN <<>> ELSE fetches[i].data]]
  /\ IF failed
       THEN UNCHANGED dashTransactions
       ELSE dashTransactions' = fetches[i].data
  /\ lastOp' = Op("fetch_transactions", user, user, NullDec,
                  IF failed THEN "network" ELSE "none", {})
  /\ UNCHANGED <<user, profile, loading, insertInFlight, refreshInFlight,
                 toasts, accepted>>
  /\ UNCHANGED dbVars
  /\ UNCHANGED <<now, balanceChanges>>

\* refreshProfile: a fresh read of the caller's own profile row, cached
RefreshReply ==
  /\ refreshInFlight
  /\ refreshInFlight' = FALSE
  /\ profile' = IF ProfilesOf(user) # {}
                  THEN <<CHOOSE r \in ProfilesOf(user) : TRUE>>
                  ELSE profile
  /\ UNCHANGED <<user, dashTransactions, loading, insertInFlight,
                 fetches, toasts, accepted>>
  /\ UNCHANGED dbVars
  /\ UNCHANGED <<now, lastOp, balanceChanges>>

\* now() advances
Tick ==
  /\ now' = now + 1
  /\ UNCHANGED dbVars
  /\ UNCHANGED <<lastOp, balanceChanges>>
  /\ UNCHANGED dashVars

----------------------------------------------------------------------------
(* Specifications *)

Init ==
  /\ users = {}
  /\ profiles = {}
  /\ transactions = {}
  /\ audit_logs = <<>>
  /\ nextTxId = 1
  /\ now = 0
  /\ lastOp = NoOp
  /\ balanceChanges = <<>>
  /\ user = NoUser
  /\ profile = <<>>
  /\ dashTransactions = <<>>
  /\ loading = FALSE
  /\ insertInFlight = 0
  /\ fetches = <<>>
  /\ refreshInFlight = FALSE
  /\ toasts = <<>>
  /\ accepted = 0

\* identities and their profiles
NextIdentities ==
  \/ \E id \in Ids, in \in IdentityInputs : CreateIdentity(id, in[1], in[2])
  \/ \E id \in Ids : DeleteIdentity(id)
  \/ \E uid \in Ids, id \in Ids, ph \in {NullStr, "08010000000"} :
       InsertProfile(uid, id, ph)
  \/ \E uid \in Ids, old \in profiles : DeleteProfile(uid, old)
  \/ \E uid \in Ids, old \in profiles, v \in BOOLEAN :
       UpdateProfile(uid, old, "has_paid_verification", NullDec, v, FALSE)
  \/ \E uid \in Ids, old \in profiles, v \in BOOLEAN :
       UpdateProfile(uid, old, "is_verified", NullDec, v, FALSE)
  \/ \E uid \in Ids, old \in profiles, col \in {"created_at", "updated_at"},
        ts \in {0, now + 1} :
       UpdateProfileTimestamp(uid, old, col, ts)
  \/ now < MaxClock /\ Tick

SpecIdentities == Init /\ [][NextIdentities]_vars

\* profile updates and the audit log
NextAudit ==
  \/ \E id \in Ids : CreateIdentity(id, NullStr, NullStr)
  \/ \E id \in Ids : DeleteIdentity(id)
  \/ /\ Len(audit_logs) < MaxAudit
     /\ \E uid \in Ids, old \in profiles, b \in BalanceInputs, f \in BOOLEAN :
          UpdateProfile(uid, old, "balance", b, FALSE, f)
  \/ \E uid \in Ids, old \in profiles, v \in BOOLEAN :
       UpdateProfile(uid, old, "has_paid_verification", NullDec, v, FALSE)
  \/ /\ Len(audit_logs) < MaxAudit
     /\ \E uid \in Ids, owner \in Ids :
          InsertAuditLog(uid, owner, <<DefaultBalance, 0>>, <<0, 0>>)
  \/ \E uid \in Ids, i \in DOMAIN audit_logs, cmd \in {"update_audit", "delete_audit"} :
       ModifyAuditLog(uid, i, cmd)
  \/ \E uid \in Ids, owner \in Ids : SelectAuditLogs(uid, owner)

SpecAudit == Init /\ [][NextAudit]_vars

\* the transactions table under the public write surface
NextTransactions ==
  \/ \E id \in Ids : CreateIdentity(id, NullStr, NullStr)
  \/ \E id \in Ids : DeleteIdentity(id)
  \/ /\ nextTxId <= MaxTx
     /\ \E uid \in Ids, owner \in Ids \cup {NoUser}, t \in TypeInputs,
           a \in AmountInputs, st \in StatusInputs :
          InsertTransaction(uid, owner, t, a, st)
  \/ \E uid \in Ids, old \in transactions, a \in AmountInputs :
       UpdateTransaction(uid, old, "amount", a, NoUser, NullStr)
  \/ \E uid \in Ids, old \in transactions, owner \in Ids :
       UpdateTransaction(uid, old, "user_id", NullDec, owner, NullStr)
  \/ \E uid \in Ids, old \in transactions, st \in StatusInputs :
       UpdateTransaction(uid, old, "status", NullDec, NoUser, st)
  \/ \E uid \in Ids, old \in transactions : DeleteTransaction(uid, old)
  \/ \E uid \in Ids, owner \in Ids : SelectTransactions(uid, owner)

SpecTransactions == Init /\ [][NextTransactions]_vars

\* the dashboard of one signed-in identity
NextDashboard ==
  \/ \E id \in Ids : user = NoUser /\ CreateIdentity(id, NullStr, NullStr)
  \/ user # NoUser /\ DeleteIdentity(user)
  \/ \E u \in Ids : SignIn(u)
  \/ Len(toasts) + insertInFlight < MaxToasts /\ PayClick
  \/ \E net \in Transports : PayReply(net)
  \/ \E i \in DOMAIN fetches : FetchExecute(i, TRUE)
  \/ \E i \in DOMAIN fetches, failed \in BOOLEAN : FetchReply(i, failed)
  \/ RefreshReply
  \/ \E old \in ProfilesOf(user) :
       /\ ~old.has_paid_verification
       /\ UpdateProfile(user, old, "has_paid_verification", NullDec, TRUE, FALSE)

Spec == Init /\ [][NextDashboard]_vars

\* the recent-transactions query over a table that outgrows its limit
NextFetch ==
  \/ \E id \in Ids : CreateIdentity(id, NullStr, NullStr)
  \/ \E u \in Ids : SignIn(u)
  \/ /\ user = NoUser \/ (\E i \in DOMAIN fetches : fetches[i].state = "sent")
     /\ \E uid \in Ids :
          /\ user \in {NoUser, uid}
          /\ Cardinality(VisibleTransactions(uid))
               < (IF uid = user THEN MaxFetchRows ELSE MaxOtherRows)
          /\ InsertTransaction(uid, uid, "transfer", <<VerificationFee, 0>>,
                               "completed")
  \/ \E i \in DOMAIN fetches, tb \in BOOLEAN : FetchExecute(i, tb)
  \/ \E i \in DOMAIN fetches, failed \in BOOLEAN : FetchReply(i, failed)
  \/ /\ now < MaxClock
     /\ user = NoUser \/ (\E i \in DOMAIN fetches : fetches[i].state = "sent")
     /\ Tick

SpecFetch == Init /\ [][NextFetch]_vars

----------------------------------------------------------------------------
(* The amount validator: C1, C2 *)

ValidatorErrors == {"amount_must_be_positive", "amount_exceeds_maximum"}

\* d <= 0 or d > 100,000,000
OutOfRange(d) == LeqZero(d) \/ GtInt(d, MaxAmount)

\* a write of a transaction row that sets its amount
AmountWrite(op) ==
  op.op \in {"insert_tx", "update_tx_amount"} /\ op.amount # NullDec

\* C1 as stated: every insert or update of a transaction row whose submitted
\* amount a has a <= 0 or a > 100,000,000 is rejected with an error and
\* leaves the transactions table as it was.
C1_SubmittedOutOfRangeRejected ==
  [][(AmountWrite(lastOp') /\ OutOfRange(lastOp'.amount)) =>
       /\ transactions' = transactions
       /\ lastOp'.err # "no_rows" => lastOp'.err \in ValidatorErrors]_vars

\* C1 amended: every insert or update of a transaction row whose amount,
\* rounded to the two decimals of the column, is <= 0 or > 100,000,000 is
\* rejected with the validator's error and leaves the transactions table as
\* it was.
C1_RoundedOutOfRangeRejected ==
  [][(AmountWrite(lastOp') /\ OutOfRange(Round2(lastOp'.amount))) =>
       /\ transactions' = transactions
       /\ lastOp'.err # "no_rows" => lastOp'.err \in ValidatorErrors]_vars

\* an update of an existing row to an amount over the limit was rejected
C1_Witness ==
  /\ lastOp.op = "update_tx_amount"
  /\ AmountWrite(lastOp)
  /\ OutOfRange(Round2(lastOp.amount))
  /\ lastOp.err = "amount_exceeds_maximum"
  /\ \E r \in transactions : r.id = lastOp.target /\ ~OutOfRange(r.amount)

\* an insert by the owner with an allowed type and status and amount a
OwnInsertOutcome(uid, t, a, st) ==
  InsertOutcome(uid, NewTransaction(uid, t, a, st, NullStr, NullStr, NullStr,
                                    NullStr))

\* the row an accepted insert leaves behind
InsertPersisted ==
  \E r \in transactions' \ transactions :
    /\ r.id = lastOp'.target
    /\ r.amount = Round2(lastOp'.amount)
    /\ transactions' = transactions \cup {r}

\* C2 as stated: every insert with a submitted amount 0 < a <= 100,000,000
\* succeeds: the validator never rejects it and the row is persisted.
C2_SubmittedInRangeAccepted ==
  /\ [](\A uid \in users, a \in AmountInputs \ {NullDec}, t \in TxTypes,
          st \in TxStatuses :
          ~OutOfRange(a) => OwnInsertOutcome(uid, t, a, st) = "none")
  /\ [][(lastOp'.op = "insert_tx" /\ AmountWrite(lastOp')
           /\ ~OutOfRange(lastOp'.amount)) =>
          /\ lastOp'.err \notin ValidatorErrors
          /\ lastOp'.err = "none" => InsertPersisted]_vars

\* C2 amended: every insert whose amount, rounded to the two decimals of the
\* column, satisfies 0 < a <= 100,000,000 passes the validator, and, issued by
\* the owner with an allowed type and status, is persisted.
C2_RoundedInRangeAccepted ==
  /\ [](\A uid \in users, a \in AmountInputs \ {NullDec}, t \in TxTypes,
          st \in TxStatuses :
          ~OutOfRange(Round2(a)) => OwnInsertOutcome(uid, t, a, st) = "none")
  /\ [][(lastOp'.op = "insert_tx" /\ AmountWrite(lastOp')
           /\ ~OutOfRange(Round2(lastOp'.amount))) =>
          /\ lastOp'.err \notin ValidatorErrors
          /\ lastOp'.err = "none" => InsertPersisted]_vars

\* an insert of exactly the maximum amount was accepted and persisted
C2_Witness ==
  /\ lastOp.op = "insert_tx"
  /\ lastOp.amount = <<MaxAmount, 0>>
  /\ lastOp.err = "none"
  /\ \E r \in transactions : r.id = lastOp.target /\ r.amount = <<MaxAmount, 0>>

----------------------------------------------------------------------------
(* Row-level isolation of transactions: C9 *)

NotOwnedBy(tbl, uid) == {r \in tbl : r.user_id # uid}

\* C9: no operation issued by an identity U reads, inserts, updates, deletes
\* or re-assigns a transaction row owned by another identity; a read by U of
\* V's rows returns zero rows and no error.
C9_TransactionIsolation ==
  [][lastOp'.caller # NoUser =>
       /\ NotOwnedBy(transactions', lastOp'.caller)
            = NotOwnedBy(transactions, lastOp'.caller)
       /\ lastOp'.op = "select_tx" =>
            /\ lastOp'.err = "none"
            /\ \A r \in transactions :
                 r.id \in lastOp'.rows => r.user_id = lastOp'.caller
            /\ lastOp'.target # lastOp'.caller => lastOp'.rows = {}]_vars

\* U read V's transactions while V had some, and got zero rows
C9_Witness ==
  /\ lastOp.op = "select_tx"
  /\ lastOp.target # lastOp.caller
  /\ lastOp.rows = {}
  /\ \E r \in transactions : r.user_id = lastOp.target
  /\ \E r \in transactions : r.user_id = lastOp.caller

----------------------------------------------------------------------------
(* Identity provisioning: C3 *)

\* C3: every identity has exactly one profile row and every profile row
\* belongs to an identity; the row of a newly created identity has balance
\* 100000.00, is_verified false and has_paid_verification false; an identity
\* creation whose profile insert fails creates no identity and no profile.
C3_OneProfilePerIdentity ==
  [][/\ \A id \in users' : Cardinality({r \in profiles' : r.id = id}) = 1
     /\ \A r \in profiles' : r.id \in users'
     /\ \A id \in users' \ users : \A r \in profiles' :
          r.id = id => /\ r.balance = <<100000, 0>>
                       /\ r.is_verified = FALSE
                       /\ r.has_paid_verification = FALSE
     /\ (lastOp'.op = "create_identity" /\ lastOp'.err # "none") =>
          /\ users' = users
          /\ profiles' = profiles
          /\ lastOp'.target \notin users']_vars

\* an identity creation failed on a phone number another profile holds
C3_Witness ==
  /\ lastOp.op = "create_identity"
  /\ lastOp.err = "unique_violation"
  /\ lastOp.target \notin users
  /\ ProfilesOf(lastOp.target) = {}
  /\ \E id \in users : Cardinality(ProfilesOf(id)) = 1

----------------------------------------------------------------------------
(* Balance audit: C4, C5, C6, C7 *)

ProfileUpdated(op) ==
  op.op \in {"update_profile_balance", "update_profile_flag"} /\ op.err = "none"

IsPrefix(s, t) == Len(s) <= Len(t) /\ SubSeq(t, 1, Len(s)) = s

\* C4: an update of a profile row that changes the balance appends exactly
\* one audit row, owned by the profile's identity, with the old and the new
\* balance; an update that leaves the balance unchanged appends none.
C4_AuditOnBalanceChange ==
  [][ProfileUpdated(lastOp') =>
       \A old \in profiles : \A new \in profiles' :
         (old.id = lastOp'.target /\ new.id = old.id) =>
           IF old.balance # new.balance
             THEN /\ Len(audit_logs') = Len(audit_logs) + 1
                  /\ IsPrefix(audit_logs, audit_logs')
                  /\ LET a == audit_logs'[Len(audit_logs')]
                     IN  /\ a.user_id = old.id
                         /\ a.old_values = [balance |-> old.balance]
                         /\ a.new_values = [balance |-> new.balance]
             ELSE audit_logs' = audit_logs]_vars

\* an update changed a balance and its audit row is the last of the log
C4_Witness ==
  /\ lastOp.op = "update_profile_balance"
  /\ lastOp.err = "none"
  /\ audit_logs # <<>>
  /\ LET a == audit_logs[Len(audit_logs)]
     IN  /\ a.user_id = lastOp.target
         /\ a.old_values # a.new_values
         /\ \E r \in profiles : r.id = a.user_id /\ r.balance = a.new_values.balance

CountChanges(c) ==
  Cardinality({i \in DOMAIN balanceChanges : balanceChanges[i] = c})

CountAudits(c) ==
  Cardinality({i \in DOMAIN audit_logs :
                 /\ audit_logs[i].user_id = c[1]
                 /\ audit_logs[i].old_values.balance = c[2]
                 /\ audit_logs[i].new_values.balance = c[3]})

EveryChangeAudited ==
  \A i \in DOMAIN balanceChanges :
    CountChanges(balanceChanges[i]) <= CountAudits(balanceChanges[i])

\* C5: every committed balance change of an existing identity has its audit
\* row; an update whose audit insert fails changes neither the profile nor
\* the log; no operation of a client removes or alters an audit row.
C5_BalanceChangeAtomicWithAudit ==
  [][/\ EveryChangeAudited'
     /\ lastOp'.err = "audit_insert_failed" =>
          profiles' = profiles /\ audit_logs' = audit_logs
     /\ lastOp'.caller # NoUser => IsPrefix(audit_logs, audit_logs')]_vars

\* a balance update was rolled back because its audit insert failed, after
\* an earlier balance change had been committed
C5_Witness ==
  /\ lastOp.op = "update_profile_balance"
  /\ lastOp.err = "audit_insert_failed"
  /\ balanceChanges # <<>>

\* C6: every audit-log row was appended by log_balance_change for a
\* committed balance change; no client inserts one.
C6_AuditRowsOnlyFromTrigger ==
  \A i \in DOMAIN audit_logs :
    /\ audit_logs[i].by = "trigger"
    /\ LET c == <<audit_logs[i].user_id, audit_logs[i].old_values.balance,
                  audit_logs[i].new_values.balance>>
       IN  CountAudits(c) <= CountChanges(c)

\* C7: after any sequence of operations issued by authenticated identities the
\* balance of every profile equals its value at profile creation.
C7_BalanceNotSettableByOwner ==
  \A r \in profiles : r.balance = <<100000, 0>>

----------------------------------------------------------------------------
(* The recent-transactions query: C8 *)

Min(a, b) == IF a <= b THEN a ELSE b

\* the store answers call i in this step
FetchAnswered(i) ==
  fetches[i].state = "sent" /\ fetches'[i].state = "replied"

\* call i settles without error in this step
FetchSucceeded(i) ==
  fetches[i].state = "replied" /\ fetches'[i].state = "done"
  /\ ~fetches'[i].failed

\* C8: the query of fetchTransactions for identity U yields at most 10 rows,
\* all owned by U, ordered by creation time descending, the newest of U's
\* rows when U has more than 10, and the empty sequence when U has none;
\* a call that settles without error displays exactly that result.
C8_RecentTransactions ==
  [][\A k \in DOMAIN fetches :
       /\ FetchSucceeded(k) => dashTransactions' = fetches[k].data
       /\ FetchAnswered(k) =>
           LET res  == fetches'[k].data
               mine == {r \in transactions : r.user_id = user}
           IN  /\ Len(res) <= 10
               /\ Len(res) = Min(10, Cardinality(mine))
               /\ \A i \in DOMAIN res : res[i] \in mine
               /\ \A i \in DOMAIN res : \A j \in DOMAIN res :
                    /\ i # j => res[i] # res[j]
                    /\ i < j => res[i].created_at >= res[j].created_at
               /\ \A r \in mine : \A i \in DOMAIN res :
                    (\A j \in DOMAIN res : res[j] # r) =>
                  r.created_at <= res[i].created_at]_vars

\* U has more than 10 rows with different creation times, another identity
\* has rows too, and the fetch showed 10 of U's rows
C8_Witness ==
  /\ user # NoUser
  /\ fetchInFlight = 0
  /\ lastOp.op = "fetch_transactions"
  /\ lastOp.err = "none"
  /\ Len(dashTransactions) = 10
  /\ Cardinality({r \in transactions : r.user_id = user}) > 10
  /\ \E r \in transactions : r.user_id # user
  /\ dashTransactions[1].created_at # dashTransactions[10].created_at

----------------------------------------------------------------------------
(* The verification payment: C10 *)

PaymentSucceeded ==
  insertInFlight' < insertInFlight /\ lastOp'.err = "none"

\* C10: a successful handleVerificationPayment of identity U adds exactly one
\* transaction row, owned by U, of type verification_payment, amount 6000,
\* status pending, recipient 9163110673 / Abdullahi / Opay, and changes no
\* other row, no identity, no profile and no audit row: a profile that had
\* not paid has still not paid.
C10_VerificationPaymentEffect ==
  [][PaymentSucceeded =>
       /\ \E r \in transactions' \ transactions :
            /\ transactions' = transactions \cup {r}
            /\ r.user_id = user
            /\ r.type = "verification_payment"
            /\ r.amount = <<6000, 0>>
            /\ r.status = "pending"
            /\ r.recipient_account = "9163110673"
            /\ r.recipient_name = "Abdullahi"
            /\ r.recipient_bank = "Opay"
       /\ Cardinality(transactions') = Cardinality(transactions) + 1
       /\ users' = users
       /\ profiles' = profiles
       /\ audit_logs' = audit_logs
       /\ profile' = profile]_vars

\* a verification payment was accepted and the profile has still not paid
C10_Witness ==
  /\ insertInFlight = 0
  /\ lastOp.op = "verification_payment"
  /\ lastOp.err = "none"
  /\ \E r \in transactions :
       r.id = lastOp.target /\ r.user_id = user /\ r.type = "verification_payment"
  /\ \E p \in ProfilesOf(user) : ~p.has_paid_verification

----------------------------------------------------------------------------
(* One write per user action: C11 *)

\* the verification_payment rows of the signed-in identity
VerificationRows(tbl) ==
  {r \in tbl : r.user_id = user /\ r.type = "verification_payment"}

\* the await of an invocation of handleVerificationPayment completes in this
\* step: every completion shows exactly one notification
PaymentSettled == Len(toasts') > Len(toasts)

\* one step of the dashboard, as one-write-per-action requires it
OneInsertPerInvocation ==
  /\ insertInFlight' > insertInFlight =>
       /\ insertInFlight' = insertInFlight + 1
       /\ user # NoUser /\ profile # <<>>
       /\ transactions' = transactions
       /\ accepted' = accepted
  /\ PaymentSettled =>
       /\ insertInFlight' = insertInFlight - 1
       /\ accepted' \in {accepted, accepted + 1}
       /\ transactions \subseteq transactions'
       /\ Cardinality(transactions' \ transactions) = accepted' - accepted
       /\ transactions' \ transactions \subseteq VerificationRows(transactions')
  /\ ~PaymentSettled => accepted' = accepted

\* C11: an invocation of handleVerificationPayment sends exactly one insert,
\* and only when user and profile are present; when its await completes the
\* insert is over and is not sent again; the store adds one row for each
\* accepted insert and none otherwise, so the verification_payment rows
\* created for the identity are as many as the accepted inserts, all pending.
C11_OneWritePerAction ==
  /\ [](user \in users =>
         /\ Cardinality(VerificationRows(transactions)) = accepted
         /\ \A r \in VerificationRows(transactions) : r.status = "pending")
  /\ [][OneInsertPerInvocation]_vars

\* two invocations were accepted and left two pending verification_payment
\* rows of the signed-in identity
C11_Witness ==
  /\ user \in users
  /\ insertInFlight = 0
  /\ accepted = 2
  /\ Len(toasts) = 2
  /\ Cardinality({r \in VerificationRows(transactions) : r.status = "pending"}) = 2

----------------------------------------------------------------------------
(* Failure of the verification payment: C12 *)

\* the await of the insert completes with an error in this step
PaymentFailed ==
  insertInFlight' < insertInFlight /\ lastOp'.err # "none"

\* what the handler does on a failure: the catch branch shows one error
\* notification, nothing is sent again, no refetch and no profile refresh
\* start, the displayed list and the cached profile stay, loading is false
FailureHandled ==
  /\ toasts' = Append(toasts, "Error")
  /\ insertInFlight' = insertInFlight - 1
  /\ fetches' = fetches
  /\ refreshInFlight' = refreshInFlight
  /\ dashTransactions' = dashTransactions
  /\ profile' = profile
  /\ ~loading'

\* C12 as stated: a failed verification-payment insert, whatever its kind,
\* is handled as above and leaves the stored rows unchanged.
C12_FailureLeavesRowsUnchanged ==
  [][PaymentFailed =>
       /\ FailureHandled
       /\ transactions' = transactions]_vars

\* C12, amended: a failed verification-payment insert is handled as above;
\* the stored rows are unchanged when the store rejected the insert or the
\* request never reached it; when connectivity failed after the store had
\* accepted the insert, exactly the one new row is stored.
C12_FailureScoped ==
  [][PaymentFailed =>
       /\ FailureHandled
       /\ users' = users /\ profiles' = profiles /\ audit_logs' = audit_logs
       /\ lastOp'.err # "network" => accepted' = accepted
       /\ accepted' = accepted => transactions' = transactions
       /\ accepted' # accepted =>
            \E r \in VerificationRows(transactions') \ transactions :
              transactions' = transactions \cup {r}]_vars

\* the store refused an insert (the identity was gone), and another one
\* failed on the way back although the store had accepted it: both showed
\* an error, and loading is false
C12_Witness ==
  /\ insertInFlight = 0
  /\ ~loading
  /\ toasts = <<"Error", "Error">>
  /\ accepted = 1
  /\ lastOp.op = "verification_payment"
  /\ lastOp.err = "foreign_key"

----------------------------------------------------------------------------
(* The update timestamp: C13 *)

\* the profile row of identity id is replaced in this step
ProfileRowUpdated(id) ==
  /\ ProfilesOf(id) # {}
  /\ lastOp'.target = id
  /\ lastOp'.err = "none"
  /\ lastOp'.op \in {"update_profile_flag", "update_profile_balance",
                     "update_profile_created_at", "update_profile_updated_at"}

\* C13: every update of a profile row leaves updated_at = now(), whatever
\* the writer supplied for it, and the trigger changes no other column (an
\* update that writes only updated_at changes nothing else); a row changes
\* in no other way, so updated_at is the time of the latest update; and
\* updated_at is never earlier than created_at.
C13_UpdatedAtIsTimeOfLatestUpdate ==
  /\ [](\A r \in profiles : r.updated_at >= r.created_at)
  /\ [][\A id \in Ids :
          IF ProfileRowUpdated(id)
            THEN \A old \in ProfilesOf(id) :
                   \E new \in {r \in profiles' : r.id = id} :
                     /\ profiles' = (profiles \ {old}) \cup {new}
                     /\ new.updated_at = now
                     /\ lastOp'.op = "update_profile_updated_at" =>
                          new = [old EXCEPT !.updated_at = now]
            ELSE \A r \in profiles' :
                   r.id = id /\ r \notin profiles => id \notin users]_vars

----------------------------------------------------------------------------
(* One insert in flight: C14 *)

\* one step of the dashboard, as the loading flag requires it: an invocation
\* starts only while loading is false and nothing is in flight, and sets
\* loading; a completion, whatever its outcome, resets it
LoadingGuardsInsert ==
  /\ insertInFlight' > insertInFlight =>
       /\ ~loading /\ insertInFlight = 0
       /\ loading'
  /\ insertInFlight' < insertInFlight => ~loading'

\* C14: at most one verification-payment insert of the dashboard is in
\* flight, and loading is true while it is; a second invocation starts only
\* after the first has completed and reset loading, on success or on error.
C14_OneInsertInFlight ==
  /\ [](/\ insertInFlight <= 1
        /\ insertInFlight = 1 <=> loading)
  /\ [][LoadingGuardsInsert]_vars

\* a second invocation is in flight after the first one failed
C14_Witness ==
  /\ insertInFlight = 1
  /\ loading
  /\ toasts = <<"Error">>

----------------------------------------------------------------------------
(* The displayed list and the order of the replies: C15 *)

\* every fetchTransactions call of the dashboard has settled without error
AllFetchesSucceeded ==
  /\ fetches # <<>>
  /\ \A i \in DOMAIN fetches :
       fetches[i].state = "done" /\ ~fetches[i].failed

\* call i settles with an error in this step
FetchFailed(i) ==
  fetches[i].state = "replied" /\ fetches'[i].state = "done"
  /\ fetches'[i].failed

\* C15: once every fetchTransactions call has settled without error, the
\* displayed list is the result of the call issued last (the reply of a call
\* issued earlier has not replaced it, so a row the last call returned is
\* not dropped from the display); a call that fails leaves the displayed
\* list unchanged.
C15_LatestFetchDisplayed ==
  /\ [](AllFetchesSucceeded =>
         dashTransactions = fetches[Len(fetches)].data)
  /\ [][\A i \in DOMAIN fetches :
          FetchFailed(i) => dashTransactions' = dashTransactions]_vars

====
